---- MODULE Spec2Model ----
(***************************************************************************)
(* A model of weather_pull.py: api_call, _init_df, _column_renamer,         *)
(* _column_creator, update_df and main, with the pandas operations the      *)
(* program uses modelled by what they do on a frame of labelled columns.    *)
(*                                                                          *)
(* A Python str is a sequence of one-character strings, so that split(','), *)
(* concatenation and str.format are computed rather than assumed.           *)
(* Temperatures are in hundredths of a degree (92.05 is 9205).              *)
(***************************************************************************)
EXTENDS Integers, Sequences, FiniteSets, TLC

VARIABLES fs, pc, weather_one, weather_two, ret, run, call

vars == <<fs, pc, weather_one, weather_two, ret, run, call>>

---------------------------------------------------------------------------
(* Bounds *)

\* the remote service is observed on days 0..MaxDay since the epoch
MaxDay == 1

---------------------------------------------------------------------------
(* Strings *)

Comma == ","
Space == <<" ">>

K_temp == <<"t","e","m","p">>
K_feels_like == <<"f","e","e","l","s","_","l","i","k","e">>
K_temp_min == <<"t","e","m","p","_","m","i","n">>
K_temp_max == <<"t","e","m","p","_","m","a","x">>
K_pressure == <<"p","r","e","s","s","u","r","e">>
K_humidity == <<"h","u","m","i","d","i","t","y">>
K_sea_level == <<"s","e","a","_","l","e","v","e","l">>
K_grnd_level == <<"g","r","n","d","_","l","e","v","e","l">>
K_city_state == <<"c","i","t","y",","," ","s","t","a","t","e">>
K_dt == <<"d","t">>

K_temp_diff == <<"t","e","m","p","_","d","i","f","f">>
K_humidity_diff == <<"h","u","m","i","d","i","t","y","_","d","i","f","f">>
K_pressure_diff == <<"p","r","e","s","s","u","r","e","_","d","i","f","f">>
K_temp_max_diff == <<"t","e","m","p","_","m","a","x","_","d","i","f","f">>
K_temp_min_diff == <<"t","e","m","p","_","m","i","n","_","d","i","f","f">>

Austin == <<"a","u","s","t","i","n">>
Saratoga == <<"s","a","r","a","t","o","g","a">>
TX == <<"t","x">>
CA == <<"c","a">>
NY == <<"n","y">>

\* str.split(sep): the parts of s between the occurrences of sep
RECURSIVE SplitFrom(_, _, _, _)
SplitFrom(s, sep, i, cur) ==
    IF i > Len(s) THEN <<cur>>
    ELSE IF s[i] = sep THEN <<cur>> \o SplitFrom(s, sep, i + 1, <<>>)
    ELSE SplitFrom(s, sep, i + 1, Append(cur, s[i]))

Split(s, sep) == SplitFrom(s, sep, 1, <<>>)

\* the cells of a frame: a number, a string, a calendar date or NaN
Num(n) == [t |-> "num", n |-> n, s |-> <<>>]
Str(s) == [t |-> "str", n |-> 0, s |-> s]
Date(d) == [t |-> "date", n |-> d, s |-> <<>>]
NaN == [t |-> "nan", n |-> 0, s |-> <<>>]

---------------------------------------------------------------------------
(* Python dicts: insertion-ordered sequences of key/value items *)

Item(k, v) == [k |-> k, v |-> v]

Keys(d) == [i \in 1..Len(d) |-> d[i].k]

Values(d) == [i \in 1..Len(d) |-> d[i].v]

HasKey(d, k) == \E i \in 1..Len(d) : d[i].k = k

Lookup(d, k) == d[CHOOSE i \in 1..Len(d) : d[i].k = k].v

\* d[k] = v: an existing key keeps its position, a new key goes last
DictSet(d, k, v) ==
    IF HasKey(d, k)
    THEN [i \in 1..Len(d) |-> IF d[i].k = k THEN Item(k, v) ELSE d[i]]
    ELSE Append(d, Item(k, v))

---------------------------------------------------------------------------
(* The remote weather service and api_call *)

Location(city, state) == [city |-> city, state |-> state]

AustinTX == Location(Austin, TX)
SaratogaCA == Location(Saratoga, CA)
SaratogaNY == Location(Saratoga, NY)

\* what the service reports in "main" for a city, in the order it lists it
BaseMain(city) ==
    IF city = Austin
    THEN << Item(K_temp, Num(9205)), Item(K_feels_like, Num(9514)),
            Item(K_temp_min, Num(8829)), Item(K_temp_max, Num(9527)),
            Item(K_pressure, Num(1011)), Item(K_humidity, Num(43)) >>
    ELSE << Item(K_temp, Num(7500)), Item(K_feels_like, Num(7400)),
            Item(K_temp_min, Num(7000)), Item(K_temp_max, Num(7800)),
            Item(K_pressure, Num(1015)), Item(K_humidity, Num(55)) >>

\* a later observation of the same city: every metric has moved, each by a
\* different amount
WarmerMain(city) ==
    LET b == BaseMain(city)
    IN  [i \in 1..Len(b) |-> Item(b[i].k, Num(b[i].v.n + i))]

\* the service adds sea_level and grnd_level to "main" for some stations
SeaLevelMain(city) ==
    BaseMain(city) \o << Item(K_sea_level, Num(1015)), Item(K_grnd_level, Num(998)) >>

\* the same fields listed in another order
ReorderedMain(city) ==
    LET b == BaseMain(city)
    IN  << b[1], b[2], b[3], b[4], b[6], b[5] >>

\* "main" without its temp field
PartialMain(city) == Tail(BaseMain(city))

ServiceMain(city, variant) ==
    CASE variant = "base" -> BaseMain(city)
      [] variant = "warmer" -> WarmerMain(city)
      [] variant = "sea_level" -> SeaLevelMain(city)
      [] variant = "reordered" -> ReorderedMain(city)
      [] variant = "partial" -> PartialMain(city)

\* what requests.get(...).json() gives: a connection failure, or a JSON object
NetError == [net |-> "error", has_main |-> FALSE, main |-> <<>>, has_dt |-> FALSE, dt |-> 0]

\* the service's answer to a bad key: an object with neither "main" nor "dt"
ApiError == [net |-> "ok", has_main |-> FALSE, main |-> <<>>, has_dt |-> FALSE, dt |-> 0]

OkResponse(main, ts) ==
    [net |-> "ok", has_main |-> TRUE, main |-> main, has_dt |-> TRUE, dt |-> ts]

\* two observation times on each day: 00:01:07 and 23:59:59 UTC
Timestamps == { d * 86400 + s : d \in 0..MaxDay, s \in {67, 86399} }

\* datetime.utcfromtimestamp(ts).strftime('%Y-%m-%d'): the UTC calendar day
UtcDate(ts) == Date(ts \div 86400)

Raised(kind) == [raised |-> TRUE, kind |-> kind, value |-> <<>>]

Returned(value) == [raised |-> FALSE, kind |-> "", value |-> value]

\* api_call(api_key, city, state) when the service answers `response`
ApiCall(city, state, response) ==
    IF response.net = "error" THEN Raised("ConnectionError")
    ELSE IF ~response.has_main THEN Raised("KeyError")
    ELSE IF ~response.has_dt THEN Raised("KeyError")
    ELSE LET w1 == DictSet(response.main, K_city_state, Str(city \o <<Comma>> \o Space \o state))
             w2 == DictSet(w1, K_dt, UtcDate(response.dt))
         IN  Returned(<<w2>>)

---------------------------------------------------------------------------
(* pandas: a frame is a sequence of column labels and rows of cells *)

Frame(columns, data) == [kind |-> "DataFrame", columns |-> columns, data |-> data]

\* pd.DataFrame(): no columns, no rows
EmptyFrame == Frame(<<>>, <<>>)

\* Python's None, where a frame is expected
NoneValue == [kind |-> "None", columns |-> <<>>, data |-> <<>>]

Has(seq, x) == \E i \in 1..Len(seq) : seq[i] = x

IndexOf(seq, x) == CHOOSE i \in 1..Len(seq) : seq[i] = x /\ \A j \in 1..(i - 1) : seq[j] # x

Positions(seq, x) == SelectSeq([i \in 1..Len(seq) |-> i], LAMBDA i : seq[i] = x)

RECURSIVE Flatten(_)
Flatten(seqs) == IF seqs = <<>> THEN <<>> ELSE Head(seqs) \o Flatten(Tail(seqs))

\* labels of a followed by the labels of b that a does not have
UnionLabels(a, b) == a \o SelectSeq(b, LAMBDA x : ~Has(a, x))

ErrFrame(kind) == [raised |-> TRUE, kind |-> kind, df |-> NoneValue]

OkFrame(df) == [raised |-> FALSE, kind |-> "", df |-> df]

\* pd.DataFrame(records) for a list of dicts: one row per dict, the columns
\* in the order the keys first appear, NaN where a dict lacks a key
RECURSIVE AllKeys(_)
AllKeys(records) ==
    IF records = <<>> THEN <<>>
    ELSE UnionLabels(Keys(Head(records)), AllKeys(Tail(records)))

DataFrame(records) ==
    LET cols == AllKeys(records)
    IN  Frame(cols,
              [r \in 1..Len(records) |->
                 [c \in 1..Len(cols) |->
                    IF HasKey(records[r], cols[c]) THEN Lookup(records[r], cols[c]) ELSE NaN]])

\* pd.concat([a, b], axis=1) of frames with the same index
ConcatColumns(a, b) ==
    Frame(a.columns \o b.columns, [r \in 1..Len(a.data) |-> a.data[r] \o b.data[r]])

\* [item for items in zip(xs, ys) for item in items]: zip stops at the shorter
Interleave(xs, ys) ==
    LET n == IF Len(xs) < Len(ys) THEN Len(xs) ELSE Len(ys)
    IN  Flatten([i \in 1..n |-> <<xs[i], ys[i]>>])

\* df[[labels]]: for each label in turn, every column that carries it
SelectColumns(df, labels) ==
    IF \E i \in 1..Len(labels) : ~Has(df.columns, labels[i])
    THEN ErrFrame("KeyError")
    ELSE LET pos == Flatten([i \in 1..Len(labels) |-> Positions(df.columns, labels[i])])
         IN  OkFrame(Frame([i \in 1..Len(pos) |-> df.columns[pos[i]]],
                           [r \in 1..Len(df.data) |-> [i \in 1..Len(pos) |-> df.data[r][pos[i]]]]))

\* df[label]: a Series when one column carries the label, a DataFrame of all
\* the columns that carry it when several do
GetItem(df, label) ==
    IF ~Has(df.columns, label) THEN ErrFrame("KeyError")
    ELSE LET pos == Positions(df.columns, label)
         IN  OkFrame([kind |-> IF Len(pos) = 1 THEN "Series" ELSE "DataFrame",
                      columns |-> [i \in 1..Len(pos) |-> label],
                      data |-> [r \in 1..Len(df.data) |-> [i \in 1..Len(pos) |-> df.data[r][pos[i]]]]])

CellSub(x, y) == IF x.t = "num" /\ y.t = "num" THEN Num(x.n - y.n) ELSE NaN

\* the operands of the subtraction exchanged: b - a
SubReversed(a, b) ==
    [kind |-> a.kind, columns |-> a.columns,
     data |-> [r \in 1..Len(a.data) |->
                 [c \in 1..Len(a.columns) |-> CellSub(b.data[r][c], a.data[r][c])]]]

\* a - b for two selections with the same labels and index: cell by cell
Sub(a, b) ==
    [kind |-> a.kind, columns |-> a.columns,
     data |-> [r \in 1..Len(a.data) |->
                 [c \in 1..Len(a.columns) |-> CellSub(a.data[r][c], b.data[r][c])]]]

\* an assignment that takes the first column of whatever it is given
SetItemFirstColumn(df, label, value) ==
    IF Has(df.columns, label)
    THEN OkFrame(Frame(df.columns,
                       [r \in 1..Len(df.data) |->
                          [c \in 1..Len(df.columns) |->
                             IF df.columns[c] = label THEN value.data[r][1] ELSE df.data[r][c]]]))
    ELSE OkFrame(Frame(Append(df.columns, label),
                       [r \in 1..Len(df.data) |-> Append(df.data[r], value.data[r][1])]))

\* df[label] = value: a frame of several columns cannot be set to one column
SetItem(df, label, value) ==
    IF value.kind = "DataFrame" /\ Len(value.columns) # 1 THEN ErrFrame("ValueError")
    ELSE IF Has(df.columns, label)
    THEN OkFrame(Frame(df.columns,
                       [r \in 1..Len(df.data) |->
                          [c \in 1..Len(df.columns) |->
                             IF df.columns[c] = label THEN value.data[r][1] ELSE df.data[r][c]]]))
    ELSE OkFrame(Frame(Append(df.columns, label),
                       [r \in 1..Len(df.data) |-> Append(df.data[r], value.data[r][1])]))

\* one row of src laid out on the columns cols, NaN where src has no such column
Reindex(src, row, cols) ==
    [c \in 1..Len(cols) |->
       IF Has(src.columns, cols[c]) THEN row[IndexOf(src.columns, cols[c])] ELSE NaN]

\* pd.concat(objs, axis=0): None objects are dropped silently (all None is
\* an error); the rows of each frame follow one another on the union of columns
RECURSIVE ConcatFrames(_)
ConcatFrames(frames) ==
    IF Len(frames) = 1 THEN Head(frames)
    ELSE LET a == Head(frames)
             b == ConcatFrames(Tail(frames))
             cols == UnionLabels(a.columns, b.columns)
         IN  Frame(cols,
                   [r \in 1..Len(a.data) |-> Reindex(a, a.data[r], cols)]
                   \o [r \in 1..Len(b.data) |-> Reindex(b, b.data[r], cols)])

ConcatRows(objs) ==
    LET frames == SelectSeq(objs, LAMBDA o : o.kind # "None")
    IN  IF frames = <<>> THEN ErrFrame("ValueError") ELSE OkFrame(ConcatFrames(frames))

\* the cells of a row under the labels of subset
RowKey(df, row, subset) == [i \in 1..Len(subset) |-> row[IndexOf(df.columns, subset[i])]]

\* df.drop_duplicates(subset=...): of the rows that agree on subset, the first
\* stays; a label of subset that is no column is a KeyError
DropDuplicates(df, subset) ==
    IF \E i \in 1..Len(subset) : ~Has(df.columns, subset[i])
    THEN ErrFrame("KeyError")
    ELSE LET keep == SelectSeq([r \in 1..Len(df.data) |-> r],
                               LAMBDA r : \A q \in 1..(r - 1) :
                                   RowKey(df, df.data[q], subset) # RowKey(df, df.data[r], subset))
         IN  OkFrame(Frame(df.columns, [i \in 1..Len(keep) |-> df.data[keep[i]]]))

---------------------------------------------------------------------------
(* Files *)

NonePath == [kind |-> "None", s |-> <<>>]

StrPath(s) == [kind |-> "str", s |-> s]

\* the truth value of csv_path in `if csv_path:`: None and '' are false
Truthy(path) == path.kind = "str" /\ path.s # <<>>

Absent == [kind |-> "absent", frame |-> NoneValue]

\* a file that is no table
Garbage == [kind |-> "garbage", frame |-> NoneValue]

CsvFile(df) == [kind |-> "csv", frame |-> df]

HistoryPath == <<"h","i","s","t","o","r","y",".","c","s","v">>

\* '{city1}_and_{city2}_weather_comparison.csv'.format(city1=..., city2=...)
DefaultName(city1, city2) ==
    city1 \o <<"_","a","n","d","_">> \o city2
    \o <<"_","w","e","a","t","h","e","r","_","c","o","m","p","a","r","i","s","o","n",".","c","s","v">>

ShortNames == {Austin, Saratoga}

Files == {HistoryPath} \cup { DefaultName(a, b) : a \in ShortNames, b \in ShortNames }

\* os.path.exists(path): a TypeError for None
PathExists(files, path) ==
    IF path.kind = "None" THEN [raised |-> TRUE, value |-> FALSE]
    ELSE [raised |-> FALSE, value |-> path.s \in DOMAIN files /\ files[path.s].kind # "absent"]

Digits == <<"1","2","3","4","5","6","7","8","9">>

\* pd.read_csv(path): the header and the rows of the file, a repeated header
\* label read back as label.1, label.2, ...; an error for a file that is no table
ReadCsv(content) ==
    IF content.kind # "csv" \/ content.frame.columns = <<>> THEN ErrFrame("ParserError")
    ELSE LET cols == content.frame.columns
             seen(i) == Cardinality({ j \in 1..(i - 1) : cols[j] = cols[i] })
         IN  OkFrame(Frame([i \in 1..Len(cols) |->
                              IF seen(i) = 0 THEN cols[i]
                              ELSE cols[i] \o <<".", Digits[seen(i)]>>],
                           content.frame.data))

\* to_csv opened in append mode: the rows of df follow what the file held
ToCsvAppend(files, path, df, writable) ==
    IF ~writable THEN [raised |-> TRUE, kind |-> "OSError", fs |-> files]
    ELSE [raised |-> FALSE, kind |-> "",
          fs |-> [files EXCEPT ![path] =
                    IF files[path].kind = "csv"
                    THEN CsvFile(Frame(df.columns, files[path].frame.data \o df.data))
                    ELSE CsvFile(df)]]

\* df.to_csv(path, index=False): the file holds the header and rows of df, in
\* place of what it held; nothing is written when the file cannot be opened
ToCsv(files, path, df, writable) ==
    IF ~writable THEN [raised |-> TRUE, kind |-> "OSError", fs |-> files]
    ELSE [raised |-> FALSE, kind |-> "", fs |-> [files EXCEPT ![path] = CsvFile(df)]]

---------------------------------------------------------------------------
(* _init_df, _column_renamer, _column_creator, update_df *)

\* the local df when the body of _init_df ends; "unbound" when no branch
\* assigned it (the path names no file)
InitDfLocal(files, csv_path) ==
    LET ex == PathExists(files, csv_path)
    IN  IF ex.raised THEN EmptyFrame
        ELSE IF ~ex.value THEN [kind |-> "unbound", columns |-> <<>>, data |-> <<>>]
        ELSE LET rd == ReadCsv(files[csv_path.s])
             IN  IF rd.raised THEN EmptyFrame ELSE rd.df

\* _init_df has no return statement: whatever df is, the caller gets None
InitDf(files, csv_path) ==
    LET df == InitDfLocal(files, csv_path)
    IN  NoneValue

ColumnRenamer(df, weather_list) ==
    LET city_name == Split(Lookup(weather_list[1], K_city_state).s, Comma)[1]
    IN  [df |-> [df EXCEPT !.columns = [c \in 1..Len(df.columns) |-> city_name \o Space \o df.columns[c]]],
         city_name |-> city_name]

ColumnCreator(city_name1, city_name2, attribute) ==
    << city_name1 \o Space \o attribute, city_name2 \o Space \o attribute >>

\* combined_df[name] = combined_df[pair[1]] - combined_df[pair[2]]
AssignDiff(res, name, pair) ==
    IF res.raised THEN res
    ELSE LET a == GetItem(res.df, pair[1])
             b == GetItem(res.df, pair[2])
         IN  IF a.raised THEN a
             ELSE IF b.raised THEN b
             ELSE SetItem(res.df, name, Sub(a.df, b.df))

\* a destination that ignores csv_path
DestinationDefault(csv_path, city_name_one, city_name_two) ==
    DefaultName(city_name_one, city_name_two)

\* where update_df writes
Destination(csv_path, city_name_one, city_name_two) ==
    IF Truthy(csv_path) THEN csv_path.s ELSE DefaultName(city_name_one, city_name_two)

\* update_df(weather1, weather2, csv_path) on the files `files`; writable says
\* whether the destination can be opened for writing
UpdateDf(files, weather1, weather2, csv_path, writable) ==
    LET old_df == InitDf(files, csv_path)
        one == ColumnRenamer(DataFrame(weather1), weather1)
        two == ColumnRenamer(DataFrame(weather2), weather2)
        interleaved == SelectColumns(ConcatColumns(one.df, two.df),
                                     Interleave(one.df.columns, two.df.columns))
        temp == ColumnCreator(one.city_name, two.city_name, K_temp)
        humidity == ColumnCreator(one.city_name, two.city_name, K_humidity)
        pressure == ColumnCreator(one.city_name, two.city_name, K_pressure)
        temp_max == ColumnCreator(one.city_name, two.city_name, K_temp_max)
        temp_min == ColumnCreator(one.city_name, two.city_name, K_temp_min)
        dt == ColumnCreator(one.city_name, two.city_name, K_dt)
        d1 == AssignDiff(interleaved, K_temp_diff, temp)
        d2 == AssignDiff(d1, K_humidity_diff, humidity)
        d3 == AssignDiff(d2, K_pressure_diff, pressure)
        d4 == AssignDiff(d3, K_temp_max_diff, temp_max)
        combined == AssignDiff(d4, K_temp_min_diff, temp_min)
        joined == IF combined.raised THEN combined ELSE ConcatRows(<<old_df, combined.df>>)
        new_df == IF joined.raised THEN joined ELSE DropDuplicates(joined.df, dt)
        dest == Destination(csv_path, one.city_name, two.city_name)
        written == IF new_df.raised
                   THEN [raised |-> TRUE, kind |-> new_df.kind, fs |-> files]
                   ELSE ToCsv(files, dest, new_df.df, writable)
    IN  [raised |-> written.raised, kind |-> written.kind, fs |-> written.fs,
         old_df |-> old_df, combined |-> combined.df,
         dest |-> dest, city_one |-> one.city_name, city_two |-> two.city_name]

---------------------------------------------------------------------------
(* The program: main, and update_df called with a csv_path *)

\* the cells of a row of df under the two date columns of a city pair
DatePair(df, row, city_one, city_two) ==
    << row[IndexOf(df.columns, city_one \o Space \o K_dt)],
       row[IndexOf(df.columns, city_two \o Space \o K_dt)] >>

HasDateColumns(df, city_one, city_two) ==
    Has(df.columns, city_one \o Space \o K_dt) /\ Has(df.columns, city_two \o Space \o K_dt)

\* the dates of the two readings handed to update_df
ReadingDates(weather1, weather2) == << Lookup(weather1[1], K_dt), Lookup(weather2[1], K_dt) >>

\* the record of the latest update_df call: its arguments, what it computed,
\* and what its destination held before: the kind of file, the number of rows,
\* and whether a row there had the date pair of the new readings
NoCall ==
    [made |-> FALSE, weather1 |-> <<>>, weather2 |-> <<>>, csv_path |-> NonePath,
     raised |-> FALSE, kind |-> "", old_df |-> NoneValue, combined |-> NoneValue,
     dest |-> <<>>, city_one |-> <<>>, city_two |-> <<>>,
     prior_kind |-> "absent", prior_rows |-> 0, prior_same_pair |-> FALSE]

CallRecord(files, weather1, weather2, csv_path, out) ==
    LET prior == files[out.dest]
    IN  [made |-> TRUE, weather1 |-> weather1, weather2 |-> weather2, csv_path |-> csv_path,
         raised |-> out.raised, kind |-> out.kind, old_df |-> out.old_df,
         combined |-> out.combined, dest |-> out.dest,
         city_one |-> out.city_one, city_two |-> out.city_two,
         prior_kind |-> prior.kind,
         prior_rows |-> Len(prior.frame.data),
         prior_same_pair |->
             /\ prior.kind = "csv"
             /\ HasDateColumns(prior.frame, out.city_one, out.city_two)
             /\ \E i \in 1..Len(prior.frame.data) :
                   DatePair(prior.frame, prior.frame.data[i], out.city_one, out.city_two)
                   = ReadingDates(weather1, weather2)]

\* the record of the latest run of main: how each step ended ("none": not
\* reached)
NoRun == [started |-> FALSE, one |-> "none", two |-> "none", update |-> "none"]

\* a main that returns True whatever happened
MainResultTrue(raised) == "True"

\* main's two return statements
MainResult(raised) == IF raised THEN "False" ELSE "True"

\* an except clause that removes the output file of the run that failed
MainExceptCleanup(files) == [files EXCEPT ![DefaultName(Austin, Saratoga)] = Absent]

\* main's except clause does nothing to the files before it returns
MainExcept(files) == files

\* the answers the service may give
Variants == {"base", "warmer"}

AllVariants == {"base", "warmer", "sea_level", "reordered", "partial"}

Responses(city, variants) ==
    {NetError, ApiError}
    \cup { OkResponse(ServiceMain(city, v), ts) : v \in variants, ts \in Timestamps }

Readings(loc, variants) ==
    { ApiCall(loc.city, loc.state, OkResponse(ServiceMain(loc.city, v), ts)).value :
        v \in variants, ts \in Timestamps }

\* the two readings of one run are fetched one after the other: the second is
\* observed on the day of the first or on the next
Sequential(weather1, weather2) ==
    Lookup(weather2[1], K_dt).n - Lookup(weather1[1], K_dt).n \in {0, 1}

Locations == {AustinTX, SaratogaCA, SaratogaNY}

Paths == {NonePath, StrPath(HistoryPath)}

Init ==
    /\ \E g \in SUBSET {HistoryPath, DefaultName(Austin, Saratoga)} :
          fs = [f \in Files |-> IF f \in g THEN Garbage ELSE Absent]
    /\ pc = "idle"
    /\ weather_one = <<>>
    /\ weather_two = <<>>
    /\ ret = "none"
    /\ run = NoRun
    /\ call = NoCall

\* main is entered: the try block begins
MainCall ==
    /\ pc = "idle"
    /\ pc' = "fetch_one"
    /\ run' = [NoRun EXCEPT !.started = TRUE]
    /\ ret' = "none"
    /\ call' = NoCall
    /\ UNCHANGED <<fs, weather_one, weather_two>>

\* weather_one = api_call(AUTH_KEY, 'austin', 'tx')
MainFetchOne ==
    /\ pc = "fetch_one"
    /\ \E response \in Responses(Austin, Variants \cup {"partial"}) :
       \E r \in {ApiCall(Austin, TX, response)} :
          IF r.raised
          THEN /\ fs' = MainExcept(fs)
               /\ ret' = MainResult(TRUE)
               /\ pc' = "idle"
               /\ run' = [run EXCEPT !.one = "raised"]
               /\ UNCHANGED weather_one
          ELSE /\ weather_one' = r.value
               /\ pc' = "fetch_two"
               /\ run' = [run EXCEPT !.one = "ok"]
               /\ UNCHANGED <<fs, ret>>
    /\ UNCHANGED <<weather_two, call>>

\* weather_two = api_call(AUTH_KEY, 'saratoga', 'ca')
MainFetchTwo ==
    /\ pc = "fetch_two"
    /\ \E response \in Responses(Saratoga, {"base"}) :
       \E r \in {ApiCall(Saratoga, CA, response)} :
          /\ ~r.raised => Sequential(weather_one, r.value)
          /\ IF r.raised
             THEN /\ fs' = MainExcept(fs)
                  /\ ret' = MainResult(TRUE)
                  /\ pc' = "idle"
                  /\ run' = [run EXCEPT !.two = "raised"]
                  /\ weather_one' = <<>>
                  /\ UNCHANGED weather_two
             ELSE /\ weather_two' = r.value
                  /\ pc' = "update"
                  /\ run' = [run EXCEPT !.two = "ok"]
                  /\ UNCHANGED <<fs, ret, weather_one>>
    /\ UNCHANGED call

\* update_df(weather_one, weather_two), then return True, or False from the
\* except clause
MainUpdate ==
    /\ pc = "update"
    /\ \E writable \in BOOLEAN :
       \E out \in {UpdateDf(fs, weather_one, weather_two, NonePath, writable)} :
          /\ fs' = IF out.raised THEN MainExcept(out.fs) ELSE out.fs
          /\ ret' = MainResult(out.raised)
          /\ run' = [run EXCEPT !.update = IF out.raised THEN "raised" ELSE "ok"]
    /\ pc' = "idle"
    /\ weather_one' = <<>>
    /\ weather_two' = <<>>
    /\ UNCHANGED call

\* update_df called on two readings of api_call, with or without a csv_path
UpdateDfCall ==
    /\ pc = "idle"
    /\ \E csv_path \in Paths :
       \E weather1 \in Readings(AustinTX, Variants), weather2 \in Readings(SaratogaCA, {"base"}) :
       Sequential(weather1, weather2) /\
       \E out \in {UpdateDf(fs, weather1, weather2, csv_path, TRUE)} :
          /\ fs' = out.fs
          /\ call' = CallRecord(fs, weather1, weather2, csv_path, out)
    /\ ret' = "none"
    /\ run' = NoRun
    /\ UNCHANGED <<pc, weather_one, weather_two>>

Next == MainCall \/ MainFetchOne \/ MainFetchTwo \/ MainUpdate \/ UpdateDfCall

Spec == Init /\ [][Next]_vars

---------------------------------------------------------------------------
(* update_df as a function of its arguments: every pair of readings the      *)
(* service can give for two locations, applied once                          *)

InitMerge ==
    /\ \E g \in SUBSET {HistoryPath} :
          fs = [f \in Files |-> IF f \in g THEN Garbage ELSE Absent]
    /\ pc = "merge"
    /\ \E loc1 \in Locations, loc2 \in Locations :
          /\ weather_one \in Readings(loc1, AllVariants)
          /\ weather_two \in Readings(loc2, AllVariants)
    /\ ret = "none"
    /\ run = NoRun
    /\ call = NoCall

MergeApply ==
    /\ pc = "merge"
    /\ \E csv_path \in Paths \cup {StrPath(<<>>)}, writable \in BOOLEAN :
       \E out \in {UpdateDf(fs, weather_one, weather_two, csv_path, writable)} :
          /\ fs' = out.fs
          /\ call' = CallRecord(fs, weather_one, weather_two, csv_path, out)
    /\ pc' = "merged"
    /\ UNCHANGED <<weather_one, weather_two, ret, run>>

NextMerge == MergeApply

SpecMerge == InitMerge /\ [][NextMerge]_vars

---------------------------------------------------------------------------
(* Properties *)

ShortName(weather) == Split(Lookup(weather[1], K_city_state).s, Comma)[1]

Metric(weather, k) == Lookup(weather[1], k).n

\* the cell of the one row of df under label
Cell(df, label) == df.data[1][IndexOf(df.columns, label)]

MainFile == DefaultName(Austin, Saratoga)

\* a step that is a successful call of update_df with a csv_path whose file
\* already held a table
AppendStep ==
    /\ pc = "idle" /\ pc' = "idle"
    /\ call'.made /\ ~call'.raised
    /\ Truthy(call'.csv_path)
    /\ fs[call'.csv_path.s].kind = "csv"

\* C1: every row the file at csv_path held whose date pair differs from the
\* new record's is still there after update_df, in its order, and the new row
\* follows them all
HistoryAccumulates ==
    [][ AppendStep =>
          LET old == fs[call'.csv_path.s].frame
              new == fs'[call'.csv_path.s].frame
              pair == ReadingDates(call'.weather1, call'.weather2)
              kept == SelectSeq(old.data,
                                LAMBDA row : DatePair(old, row, call'.city_one, call'.city_two) # pair)
          IN  /\ Len(new.data) >= Len(kept)
              /\ SubSeq(new.data, 1, Len(kept)) = kept
              /\ (Len(kept) = Len(old.data) => new.data = old.data \o call'.combined.data)
      ]_vars

\* C2: no two rows of a persisted table share a date pair, and after a
\* successful update_df its destination holds exactly one row with the date
\* pair of the new record, also when a row with that pair was there before
DatePairsUnique ==
    /\ \A f \in Files : \A c1 \in ShortNames, c2 \in ShortNames :
          (fs[f].kind = "csv" /\ HasDateColumns(fs[f].frame, c1, c2)) =>
             \A i \in 1..Len(fs[f].frame.data), j \in 1..Len(fs[f].frame.data) :
                i # j => DatePair(fs[f].frame, fs[f].frame.data[i], c1, c2)
                         # DatePair(fs[f].frame, fs[f].frame.data[j], c1, c2)
    /\ (call.made /\ ~call.raised) =>
          LET df == fs[call.dest].frame
          IN  Cardinality({ i \in 1..Len(df.data) :
                              DatePair(df, df.data[i], call.city_one, call.city_two)
                              = ReadingDates(call.weather1, call.weather2) }) = 1

\* the same record's date pair was appended to a file that already held it
SamePairAppendedTwice ==
    /\ call.made /\ ~call.raised
    /\ call.prior_same_pair
    /\ Len(fs[call.dest].frame.data) = 1

\* C3: when the file at csv_path holds a row with the date pair of the new
\* record and other metric values, the table written keeps that earlier row and
\* not the new one, the rows in their order
KeepsFirstOccurrence ==
    [][ (AppendStep /\ call'.prior_same_pair
           /\ \E i \in 1..Len(fs[call'.csv_path.s].frame.data) :
                 /\ DatePair(fs[call'.csv_path.s].frame, fs[call'.csv_path.s].frame.data[i],
                             call'.city_one, call'.city_two)
                    = ReadingDates(call'.weather1, call'.weather2)
                 /\ fs[call'.csv_path.s].frame.data[i] # call'.combined.data[1])
        => fs'[call'.csv_path.s].frame.data = fs[call'.csv_path.s].frame.data
      ]_vars

\* C4: a fetch that raises ends main with False and the files as they were,
\* and a run of main changes a file only in its update step, after both
\* fetches returned
FetchFailureLeavesFiles ==
    [][ /\ (pc \in {"fetch_one", "fetch_two"} /\ pc' = "idle") => (fs' = fs /\ ret' = "False")
        /\ (run'.started /\ fs' # fs) => (pc = "update" /\ run.one = "ok" /\ run.two = "ok")
      ]_vars

\* the second fetch raised while the file of an earlier run was in place
SecondFetchFailedOverFile ==
    /\ pc = "idle" /\ ret = "False"
    /\ run.one = "ok" /\ run.two = "raised"
    /\ fs[MainFile].kind = "csv"

\* C5: main always returns a boolean, True exactly when both fetches and
\* update_df (merge and write) ended without raising, and then the file is
\* written
MainResultExact ==
    (run.started /\ pc = "idle") =>
        /\ ret \in {"True", "False"}
        /\ (ret = "True") <=> (run.one = "ok" /\ run.two = "ok" /\ run.update = "ok")
        /\ (ret = "True") => fs[MainFile].kind = "csv"

\* both fetches returned and update_df raised
UpdateRaisedInMain ==
    /\ pc = "idle" /\ run.started
    /\ run.one = "ok" /\ run.two = "ok" /\ run.update = "raised"
    /\ ret = "False"

\* C6: _init_df yields a table in every case: no rows for an unset path, a
\* missing file or a file that does not parse, the rows of the file otherwise
LoadReturnsTable ==
    call.made =>
        /\ call.old_df.kind = "DataFrame"
        /\ Len(call.old_df.data) =
              IF Truthy(call.csv_path) /\ call.prior_kind = "csv" THEN call.prior_rows ELSE 0

DiffColumns ==
    { <<K_temp, K_temp_diff>>, <<K_humidity, K_humidity_diff>>, <<K_pressure, K_pressure_diff>>,
      <<K_temp_max, K_temp_max_diff>>, <<K_temp_min, K_temp_min_diff>> }

\* a call on two readings with differing short names whose merge completed
Merged ==
    /\ call.made
    /\ ShortName(call.weather1) # ShortName(call.weather2)
    /\ call.combined.kind = "DataFrame"

\* C7: each of the five diff columns of the merged record is location 1's
\* value minus location 2's value of the same metric
DiffsAreOneMinusTwo ==
    Merged =>
        \A m \in DiffColumns :
            /\ Has(call.combined.columns, m[2])
            /\ Cell(call.combined, m[2])
               = Num(Metric(call.weather1, m[1]) - Metric(call.weather2, m[1]))

\* austin against saratoga: pressure 1011 - 1015, humidity 43 - 55
AustinMinusSaratoga ==
    /\ Merged
    /\ Cell(call.combined, K_pressure_diff) = Num(-4)
    /\ Cell(call.combined, K_humidity_diff) = Num(-12)
    /\ Cell(call.combined, K_temp_diff) = Num(1705)

\* C8: update_df on two readings with the same short name raises, and no
\* table reaches a file
NamingConflictRaises ==
    (call.made /\ ShortName(call.weather1) = ShortName(call.weather2)) =>
        /\ call.raised
        /\ \A f \in Files : fs[f].kind # "csv"

\* two different locations with one short name
SaratogaTwice ==
    /\ call.made
    /\ ShortName(call.weather1) = ShortName(call.weather2)
    /\ Lookup(call.weather1[1], K_city_state) # Lookup(call.weather2[1], K_city_state)
    /\ call.raised /\ call.kind = "ValueError"

\* C9: a successful update_df writes one file, csv_path when it is given and
\* the default-named file of the two short names otherwise, and leaves every
\* other file as it was; main writes the default-named file
WritesOneFile ==
    [][ /\ (pc = "idle" /\ pc' = "idle" /\ call'.made /\ ~call'.raised) =>
              LET target == IF call'.csv_path.kind = "str" /\ call'.csv_path.s # <<>>
                            THEN call'.csv_path.s
                            ELSE DefaultName(ShortName(call'.weather1), ShortName(call'.weather2))
              IN  /\ fs'[target].kind = "csv"
                  /\ Has(fs'[target].frame.data, call'.combined.data[1])
                  /\ \A f \in Files \ {target} : fs'[f] = fs[f]
        /\ (pc = "update" /\ ret' = "True") =>
              /\ fs'[MainFile].kind = "csv"
              /\ \A f \in Files \ {MainFile} : fs'[f] = fs[f]
      ]_vars

\* csv_path was given and written, and the default-named file does not exist
WroteCsvPathOnly ==
    /\ call.made /\ ~call.raised
    /\ call.csv_path = StrPath(HistoryPath)
    /\ fs[HistoryPath].kind = "csv"
    /\ fs[MainFile].kind = "absent"

\* C10: the merged record has every attribute of both readings as a prefixed
\* column, 2 x attributes + 5 columns in all, the same attribute of location 1
\* and location 2 side by side, whatever the number and order of the attributes
MergeKeepsEveryAttribute ==
    Merged =>
        LET a1 == Keys(call.weather1[1])
            a2 == Keys(call.weather2[1])
            c1 == ShortName(call.weather1)
            c2 == ShortName(call.weather2)
            cols == call.combined.columns
        IN  /\ Len(cols) = Len(a1) + Len(a2) + 5
            /\ \A i \in 1..Len(a1) : Has(cols, c1 \o Space \o a1[i])
            /\ \A i \in 1..Len(a2) : Has(cols, c2 \o Space \o a2[i])
            /\ \A i \in 1..Len(a1) :
                  Has(a2, a1[i]) =>
                     IndexOf(cols, c2 \o Space \o a1[i]) = IndexOf(cols, c1 \o Space \o a1[i]) + 1

====
